---- MODULE Spec2Model ----
(***************************************************************************)
(* Execution orchestration of the DWScript playground:                     *)
(*   src/src/core/executor.js        executeCode / stopExecution / metrics *)
(*   src/src/core/dwscript-api.js    DWScriptAPI.eval and normalisation    *)
(*   src/src/core/wasm-loader.js     executeDWScript                       *)
(*   src/src/workers/worker-manager.js (second module of the file)         *)
(*   src/src/global.d.ts             the worker script (dwscript-worker)   *)
(*                                                                         *)
(* One action is one task of the JavaScript event loop of the main thread  *)
(* (a user call or an event, run to completion together with the promise   *)
(* continuations it makes runnable) or one step of the worker thread.      *)
(* Wall-clock durations are not modelled; a timer is armed, becomes due    *)
(* and fires, and timers of different length fire shortest first.          *)
(***************************************************************************)
EXTENDS FiniteSets, Integers, Sequences, TLC

\* ---------------------------------------------------------------- bounds
MaxReq == 2
MaxWorkers == 2
MaxChunks == 1
\* uncaught worker errors whose message is not handled yet
MaxPendingErrors == 1

\* ------------------------------------------------------ program constants
DefaultTimeout == 30000
MaxExecutionTime == 120000
ApiExecutionTimeout == 30000
WorkerDefaultTimeout == 30000

Req == 1..MaxReq

\* ------------------------------------------------- inputs of executeCode
\* options.timeout: 0 or a number of milliseconds (an absent timeout is
\* read through the same `||` as 0 and takes the same path)
TimeoutOpts == {0, 60000}
\* options.useWorker: undefined, true or false
UseWorkerOpts == {"undefined", "true", "false"}
\* raw error values the interpreter attaches to a result or throws: absent,
\* a string (str), or an object (str is its message)
RawErrors ==
  { [kind |-> "undefined", str |-> "", type |-> "", line |-> 0],
    [kind |-> "string", str |-> "", type |-> "", line |-> 0],
    [kind |-> "string", str |-> "boom", type |-> "", line |-> 0],
    [kind |-> "object", str |-> "boom", type |-> "CompileError", line |-> 3],
    [kind |-> "object", str |-> "", type |-> "", line |-> 0] }
\* raw results of the interpreter's eval
RawResults == [success : BOOLEAN, error : RawErrors]
\* an Error object (no type, no line) the interpreter throws
Exception == [kind |-> "object", str |-> "boom", type |-> "", line |-> 0]
\* dwscript-api.js:277: new Error(`Execution timeout after ${timeout}ms`)
ApiTimeoutError ==
  [kind |-> "object", str |-> "Execution timeout", type |-> "", line |-> 0]

\* JavaScript truthiness of a raw error value
Truthy(e) == e.kind = "object" \/ (e.kind = "string" /\ e.str # "")

\* ------------------------------------------------------- DWScriptAPI
NormalizeErrorObject(e) ==
  IF e.kind = "string"
  THEN [type |-> "Error", message |-> e.str, line |-> 0, column |-> 0]
  ELSE [type |-> IF e.type # "" THEN e.type ELSE "UnknownError",
        message |-> IF e.str # "" THEN e.str ELSE "[object Object]",
        line |-> e.line, column |-> 0]

NormalizeResult(raw) ==
  [success |-> raw.success,
   hasErrors |-> TRUE,
   errors |-> IF Truthy(raw.error) THEN <<NormalizeErrorObject(raw.error)>>
              ELSE <<>>]

NormalizeError(e) ==
  [success |-> FALSE, hasErrors |-> TRUE,
   errors |-> <<NormalizeErrorObject(e)>>]

\* ------------------------------------------------------------ executor
\* results built by executeCode itself
NoResult == [success |-> FALSE, hasErrors |-> FALSE, errors |-> <<>>]
TimeoutResult ==
  [success |-> FALSE, hasErrors |-> TRUE,
   errors |-> << [type |-> "TimeoutError",
                  message |-> "Execution timed out", line |-> 0,
                  column |-> 0] >>]

ZeroMetrics ==
  [totalExecutions |-> 0, successfulExecutions |-> 0,
   failedExecutions |-> 0, timeouts |-> 0]

\* the locals of one executeCode call: where it is suspended (pc), the
\* timeout option it was called with, the timeout it passes on (direct
\* mode: the length of the timer of the race; worker mode: the timeout
\* posted with 'execute'), how it ended, and the state of
\* the direct-mode call it made (under: "none", "pending", "returned", or
\* "late" when it came back after executeCode had stopped waiting).  The
\* locals go out of scope when the call returns.
NewRequest ==
  [pc |-> "new", mode |-> "none", opt |-> 0, timeout |-> 0,
   under |-> "none", how |-> "none"]

\* what a call of executeCode returns to its caller
Return(r, rq, how, res) ==
  [r |-> r, mode |-> rq.mode, opt |-> rq.opt, how |-> how, result |-> res]

\* messages the worker posts (from and chunk identify the producer in the
\* model only: the worker's messages carry no messageId)
Msg(t, q, k, res) == [type |-> t, from |-> q, chunk |-> k, result |-> res]

VARIABLES
  isExecuting,          \* executor.js: busy flag
  executionStartTime,   \* request whose start stamped the clock (0: none)
  executionTimer,       \* request whose interval is live (0: null)
  useWorkerExecution,
  executionConfig,
  executionMetrics,
  wasmReady,            \* wasm-loader.js
  apiMetrics,           \* DWScriptAPI.performanceMetrics
  nextReq,              \* number of executeCode calls made so far
  req,                  \* per call: its continuation
  returned,             \* the results executeCode calls returned in the
                        \* last step, in order
  worker,               \* worker-manager.js: live Worker object (0: null)
  workersCreated,
  isWorkerReady,
  workerInitPromise,    \* "null", "pending", "resolved", "rejected"
  messageHandlers,      \* requests with an entry in the Map
  onmessage,            \* resultHandlers wrapped around worker.onmessage,
                        \* outermost (latest) first
  modeWatch,            \* setWorkerExecutionMode's catch is attached
  stopPending,          \* a stopExecution call is suspended in its await
  wState,               \* worker thread: "none", "initializing", "idle",
                        \* "hung" (in an eval that never returns), "failed"
  wReq,                 \* request whose eval the worker is stuck in
  wTimer,               \* executionTimeoutId: "off", "armed", "due"
  inbox,                \* execute messages posted to the worker
  outbox,               \* messages posted by the worker, not yet handled
  invoked               \* the onOutput sinks invoked in the last step, in
                        \* order: the request whose sink it is, and the
                        \* request and number of the chunk it was given

execVars == <<isExecuting, executionStartTime, executionTimer,
              executionMetrics, nextReq, req, returned>>
quietVars == <<isExecuting, executionStartTime, executionTimer,
               executionMetrics, nextReq, req>>
cfgVars == <<useWorkerExecution, executionConfig, wasmReady>>
mgrVars == <<worker, workersCreated, isWorkerReady, workerInitPromise,
             messageHandlers, onmessage, modeWatch, stopPending>>
wrkVars == <<wState, wReq, wTimer, inbox, outbox>>
VARIABLES
  instance,             \* dwscript-api.js: "null", or the state of the
                        \* interpreter object: "created", "ready", "failed"
  initialized,
  programs,             \* the Map of cached programs: key -> program id
  initPending,          \* init() calls suspended in their await: whether
                        \* one waits for the current instance, and how many
                        \* wait for an instance that was replaced or disposed
  disposed,             \* dispose() was called and no init() succeeded since
  compiled,             \* key -> program of the last successful compile
                        \* with that key since the cache was last cleared
  apiCall,              \* what the last call of the API did
  error,                \* the raw error last given to normalizeErrorObject
  normalized,           \* and what it returned
  code,                 \* url-sharing.js: the string last shared,
  encoded,              \* encodeCode(code),
  decoded,              \* and decodeCode(encoded)
  state,                \* state-manager.ts: the module variable `state`
  heap,                 \* the arrays and objects the state refers to
  localStorage,         \* the item 'dwscript-primer-state'
  stateCall             \* the function of state-manager.ts called last

apiVars == <<instance, initialized, programs, initPending, disposed,
             compiled, apiCall>>
normVars == <<error, normalized>>
shareVars == <<code, encoded, decoded>>
stateVars == <<state, heap, localStorage, stateCall>>
sideVars == <<apiVars, normVars, shareVars, stateVars>>
progVars == <<execVars, cfgVars, apiMetrics, mgrVars, wrkVars, invoked,
              sideVars>>

VARIABLES
  turtle,               \* turtle-engine.js: the fields of the TurtleEngine
                        \* and the size of its canvas; x2 and y2 are the
                        \* raster position in half pixels
  stroked,              \* the line segments stroked in the last step
  trail,                \* the commands run since the turtle was placed
  origin,               \* the turtle as it was placed
  commands,             \* canvas-renderer.js: AnimationController queue
  currentIndex,
  isPlaying,
  isPaused,
  animationId,          \* "null" or "set" (the handle of the last timer)
  timers,               \* live timeouts: latest (the one animationId
                        \* names) and the number of older ones
  lastCall              \* what the last step of the controller did: the
                        \* indices of the commands it invoked in order,
                        \* the calls of onComplete, step()'s return value

turtleVars == <<turtle, stroked, trail, origin>>
animVars == <<commands, currentIndex, isPlaying, isPaused, animationId,
              timers, lastCall>>
otherVars == <<turtleVars, animVars, sideVars>>
vars == <<progVars, turtleVars, animVars>>

\* ---------------------------------------------------------------- Init
ProgInit ==
  /\ isExecuting = FALSE
  /\ executionStartTime = 0
  /\ executionTimer = 0
  /\ useWorkerExecution = FALSE
  /\ executionConfig = [defaultTimeout |-> DefaultTimeout,
                        enableTimeout |-> TRUE,
                        maxExecutionTime |-> MaxExecutionTime]
  /\ executionMetrics = ZeroMetrics
  /\ wasmReady = FALSE
  /\ apiMetrics = [totalExecutions |-> 0, errorCount |-> 0]
  /\ nextReq = 0
  /\ req = [r \in Req |-> NewRequest]
  /\ returned = <<>>
  /\ worker = 0
  /\ workersCreated = 0
  /\ isWorkerReady = FALSE
  /\ workerInitPromise = "null"
  /\ messageHandlers = {}
  /\ onmessage = <<>>
  /\ modeWatch = FALSE
  /\ stopPending = FALSE
  /\ wState = "none"
  /\ wReq = 0
  /\ wTimer = "off"
  /\ inbox = <<>>
  /\ outbox = <<>>
  /\ invoked = <<>>

\* ------------------------------------- turtle-engine.js: construction
\* Canvas sizes: the default size of a canvas element, and one with odd
\* sides, whose centre lies on half pixels
CanvasSizes == {[width |-> 300, height |-> 150],
                [width |-> 801, height |-> 601]}

\* turtle-engine.js:7-34: the fields the constructor assigns, followed by
\* reset(), which assigns the same values again.  x2 = 2 * x, y2 = 2 * y
NewTurtle(c) ==
  [canvas |-> c,
   x2 |-> c.width, y2 |-> c.height,
   heading |-> 0,
   penDown |-> TRUE,
   penColor |-> "#000000",
   penWidth |-> 1,
   fillColor |-> "#000000",
   visible |-> TRUE,
   speed |-> 5,
   commandQueue |-> <<>>]

\* canvas-renderer.js:269-275: nothing was called yet
NoCall == [op |-> "none", ran |-> <<>>, completions |-> 0, ret |-> "none"]

\* canvas-renderer.js:183-192: AnimationController constructor
AnimInit ==
  /\ commands = <<>>
  /\ currentIndex = 0
  /\ isPlaying = FALSE
  /\ isPaused = FALSE
  /\ animationId = "null"
  /\ timers = [latest |-> FALSE, older |-> 0]
  /\ lastCall = NoCall

\* dwscript-api.js:16-28: DWScriptAPI constructor
NoApiCall ==
  [op |-> "none", ref |-> "", outcome |-> "none", called |-> FALSE,
   program |-> 0]

ApiInit ==
  /\ instance = "null"
  /\ initialized = FALSE
  /\ programs = <<>>
  /\ initPending = [current |-> FALSE, old |-> 0]
  /\ disposed = FALSE
  /\ compiled = <<>>
  /\ apiCall = NoApiCall

\* state-manager.ts:6-28: DEFAULT_STATE.  Its array completedLessons is
\* heap cell 1 and its object userCode is heap cell 2; cells 3 and 4 are
\* the array and the object JSON.parse made last
\* state-manager.ts:6-26.  An array or object value is a reference into
\* heap: 1 is the array literal of line 14 and 2 the object literal of line
\* 15; 3 and 4 are the array and the object of the last JSON.parse
DEFAULT_STATE == [theme |-> "light", completedLessons |-> 1, userCode |-> 2]

LessonIds == {"l1", "l2"}

\* an object without properties (reading a missing property gives
\* undefined, here "") and the heap of a freshly loaded module
EmptyHeap ==
  [array |-> [r \in {1, 3} |-> <<>>],
   object |-> [r \in {2, 4} |-> [id \in LessonIds |-> ""]]]

\* state-manager.ts:28: let state = { ...DEFAULT_STATE }
StateInit ==
  /\ state = DEFAULT_STATE
  /\ heap = EmptyHeap
  /\ localStorage = [saved |-> FALSE]
  /\ stateCall = "none"

SideInit ==
  /\ ApiInit
  /\ error = [kind |-> "none"] /\ normalized = [kind |-> "none"]
  /\ code = <<>> /\ encoded = <<>> /\ decoded = [done |-> FALSE, s |-> <<>>]
  /\ StateInit

TurtleInit ==
  /\ ProgInit /\ AnimInit /\ SideInit
  /\ \E c \in CanvasSizes : turtle = NewTurtle(c)
  /\ stroked = <<>>
  /\ trail = <<>>
  /\ origin = turtle

\* The page before any canvas is sized: the orchestrator with a turtle
\* and a sequencer that are never called
Init ==
  /\ ProgInit /\ SideInit
  /\ turtle = NewTurtle([width |-> 300, height |-> 150])
  /\ stroked = <<>>
  /\ trail = <<>>
  /\ origin = turtle
  /\ AnimInit

\* ------------------------------------------- executor.js: continuations
\* The part of the main-thread state that executeCode's continuation and
\* stopExecution's tail write, as one value, so that several continuations
\* made runnable by one event can be applied one after the other.
ExecState ==
  [isExecuting |-> isExecuting, executionTimer |-> executionTimer,
   executionMetrics |-> executionMetrics, req |-> req, returned |-> <<>>]

SetExecState(x) ==
  /\ isExecuting' = x.isExecuting
  /\ executionTimer' = x.executionTimer
  /\ executionMetrics' = x.executionMetrics
  /\ req' = x.req
  /\ returned' = x.returned

\* faulty variant: a failed execution is counted in the total only
UpdateMetricsDropsFailure(m, success) ==
  [m EXCEPT !.totalExecutions = @ + 1,
            !.successfulExecutions = IF success THEN @ + 1 ELSE @]

UpdateMetrics(m, success) ==
  [m EXCEPT !.totalExecutions = @ + 1,
            !.successfulExecutions = IF success THEN @ + 1 ELSE @,
            !.failedExecutions = IF success THEN @ ELSE @ + 1]

\* executeCode after its await returned res: metrics, return, finally
Complete(x, r, res, timedOut) ==
  [x EXCEPT
     !.executionMetrics =
        UpdateMetrics(IF timedOut THEN [@ EXCEPT !.timeouts = @ + 1] ELSE @,
                      res.success),
     !.req[r] = [NewRequest EXCEPT
                   !.pc = "done", !.under = x.req[r].under,
                   !.how = IF timedOut THEN "timeout" ELSE "result"],
     !.returned = Append(@, Return(r, x.req[r],
                                   IF timedOut THEN "timeout" ELSE "result",
                                   res)),
     !.isExecuting = FALSE,
     !.executionTimer = 0]

\* faulty variant: the catch block returns without the finally block
CaughtKeepsBusy(x, r) ==
  [x EXCEPT
     !.req[r] = [NewRequest EXCEPT
                   !.pc = "done", !.under = x.req[r].under,
                   !.how = "caught"],
     !.returned = Append(@, Return(r, x.req[r], "caught", NoResult))]

\* executeCode when its await threw something that is not a timeout:
\* catch block, return {success:false, error}, finally
Caught(x, r) ==
  [x EXCEPT
     !.req[r] = [NewRequest EXCEPT
                   !.pc = "done", !.under = x.req[r].under,
                   !.how = "caught"],
     !.returned = Append(@, Return(r, x.req[r], "caught", NoResult)),
     !.isExecuting = FALSE,
     !.executionTimer = 0]

\* stopExecution after its branch: busy flag and live timer are cleared
StopTail(x) == [x EXCEPT !.isExecuting = FALSE, !.executionTimer = 0]

\* options.timeout || dflt
TimeoutOr(t, dflt) == IF t # 0 THEN t ELSE dflt

EffectiveTimeout(opt) ==
  TimeoutOr(opt, IF executionConfig.enableTimeout
                 THEN executionConfig.defaultTimeout ELSE 0)

\* ------------------------------------------------ DWScriptAPI.eval
\* what instance.eval delivers: a raw result, or an exception / rejection
Throws == [kind |-> "throw", raw |-> [success |-> FALSE, error |-> Exception]]
AllOutcomes == [kind : {"result"}, raw : RawResults] \cup {Throws}
\* the outcomes the executions of the model draw from: success, a failure
\* with an error object, a failure without one, an exception
Outcomes ==
  { [kind |-> "result",
     raw |-> [success |-> TRUE,
              error |-> [kind |-> "undefined", str |-> "", type |-> "",
                         line |-> 0]]],
    [kind |-> "result",
     raw |-> [success |-> FALSE,
              error |-> [kind |-> "object", str |-> "boom",
                         type |-> "CompileError", line |-> 3]]],
    [kind |-> "result",
     raw |-> [success |-> FALSE,
              error |-> [kind |-> "undefined", str |-> "", type |-> "",
                         line |-> 0]]],
    Throws }
\* direct mode: eval returns a promise instead, which settles later or
\* never; worker: the synchronous eval never returns
Promise == [kind |-> "promise", raw |-> Throws.raw]

EvalResult(out) ==
  IF out.kind = "throw" THEN NormalizeError(out.raw.error)
  ELSE NormalizeResult(out.raw)

UpdateApiMetrics(m, success) ==
  [m EXCEPT !.totalExecutions = @ + 1,
            !.errorCount = IF success THEN @ ELSE @ + 1]

\* ------------------------------------------------ worker-manager.js
RECURSIVE AscSeq(_)
AscSeq(S) ==
  IF S = {} THEN <<>>
  ELSE LET m == CHOOSE a \in S : \A b \in S : a <= b
       IN <<m>> \o AscSeq(S \ {m})

RECURSIVE Reverse(_)
Reverse(q) == IF q = <<>> THEN <<>> ELSE Append(Reverse(Tail(q)), Head(q))

Range(q) == { q[i] : i \in 1..Len(q) }

\* initWorker when no initialisation is in progress and none succeeded:
\* new Worker(...), fresh onmessage, postMessage({type:'init'})
CreateWorker ==
  /\ workersCreated < MaxWorkers
  /\ worker' = workersCreated + 1
  /\ workersCreated' = workersCreated + 1
  /\ workerInitPromise' = "pending"
  /\ onmessage' = <<>>
  /\ wState' = "initializing"
  /\ wReq' = 0
  /\ wTimer' = "off"
  /\ inbox' = <<>>
  /\ outbox' = <<>>

\* resultHandler of every wrapped request sees the settling message m:
\* 'result' resolves, 'timeout' and 'error' reject; settling an already
\* settled promise does nothing
RECURSIVE SettleAll(_, _, _)
SettleAll(x, hs, m) ==
  IF hs = <<>> THEN x
  ELSE LET r == Head(hs)
           x1 == IF x.req[r].pc # "awaiting" THEN x
                 ELSE IF m.type = "result"
                      THEN Complete(x, r, m.result, FALSE)
                 ELSE IF m.type = "timeout"
                      THEN Complete(x, r, TimeoutResult, TRUE)
                 ELSE Caught(x, r)
       IN SettleAll(x1, Tail(hs), m)

RECURSIVE CaughtAll(_, _)
CaughtAll(x, hs) ==
  IF hs = <<>> THEN x ELSE CaughtAll(Caught(x, Head(hs)), Tail(hs))

\* ------------------------------------------------ executor.js: executeCode
ExecuteCode(uw, to, out) ==
  /\ nextReq < MaxReq
  /\ LET r == nextReq + 1
         sync == out.kind # "promise"
         useWorker == IF uw = "undefined" THEN useWorkerExecution
                      ELSE uw = "true"
         timeout == EffectiveTimeout(to)
         x0 == [ExecState EXCEPT
                  !.isExecuting = TRUE,
                  !.executionTimer = r,
                  !.req[r] = [@ EXCEPT !.opt = to, !.timeout = timeout]]
         \* worker-manager.js:401: options.timeout || defaultTimeout
         posted == TimeoutOr(timeout, WorkerDefaultTimeout)
     IN
     /\ nextReq' = r
     /\ UNCHANGED <<cfgVars, modeWatch, stopPending, isWorkerReady>>
     /\ UNCHANGED otherVars
     /\ invoked' = <<>>
     /\ IF isExecuting THEN
          \* return { success: false, message: 'Already executing' }
          /\ req' = [req EXCEPT ![r] = [@ EXCEPT !.pc = "done",
                                                  !.how = "busy"]]
          /\ returned' = << Return(r, [req[r] EXCEPT !.opt = to], "busy",
                                    NoResult) >>
          /\ UNCHANGED <<isExecuting, executionStartTime, executionTimer,
                         executionMetrics, apiMetrics, worker, workersCreated,
                         workerInitPromise, messageHandlers, onmessage,
                         wState, wReq, wTimer, inbox, outbox>>
        ELSE IF ~useWorker /\ ~wasmReady THEN
          \* return { success: false, message: 'WASM not ready' }
          /\ req' = [req EXCEPT ![r] = [@ EXCEPT !.pc = "done",
                                                  !.how = "notready"]]
          /\ returned' = << Return(r, [req[r] EXCEPT !.opt = to], "notready",
                                    NoResult) >>
          /\ UNCHANGED <<isExecuting, executionStartTime, executionTimer,
                         executionMetrics, apiMetrics, worker, workersCreated,
                         workerInitPromise, messageHandlers, onmessage,
                         wState, wReq, wTimer, inbox, outbox>>
        ELSE IF useWorker THEN
          /\ executionStartTime' = r
          /\ UNCHANGED apiMetrics
          /\ IF isWorkerReady THEN
               \* executeInWorker: register, wrap onmessage, post 'execute'
               /\ SetExecState([x0 EXCEPT !.req[r].mode = "worker",
                                          !.req[r].timeout = posted,
                                          !.req[r].pc = "awaiting"])
               /\ messageHandlers' = messageHandlers \cup {r}
               /\ onmessage' = <<r>> \o onmessage
               /\ inbox' = Append(inbox, r)
               /\ UNCHANGED <<worker, workersCreated, workerInitPromise,
                              wState, wReq, wTimer, outbox>>
             ELSE IF workerInitPromise = "rejected" THEN
               \* await initWorker() throws: catch, finally
               /\ SetExecState(Caught([x0 EXCEPT !.req[r].mode = "worker"],
                                      r))
               /\ UNCHANGED <<worker, workersCreated, workerInitPromise,
                              messageHandlers, onmessage, wState, wReq,
                              wTimer, inbox, outbox>>
             ELSE
               \* await initWorker(): pending, or started here
               /\ SetExecState([x0 EXCEPT !.req[r].mode = "worker",
                                          !.req[r].timeout = posted,
                                          !.req[r].pc = "awaitInit"])
               /\ UNCHANGED messageHandlers
               /\ IF workerInitPromise = "null" THEN CreateWorker
                  ELSE UNCHANGED <<worker, workersCreated, workerInitPromise,
                                   onmessage, wState, wReq, wTimer, inbox,
                                   outbox>>
        ELSE
          \* direct mode: Promise.race([executeDWScript(code), timer]) or
          \* await executeDWScript(code); eval runs up to its first await
          /\ executionStartTime' = r
          /\ UNCHANGED <<worker, workersCreated, workerInitPromise,
                         messageHandlers, onmessage, wState, wReq, wTimer,
                         inbox, outbox>>
          /\ IF sync THEN
               /\ apiMetrics' = UpdateApiMetrics(apiMetrics,
                                   out.kind = "result" /\ out.raw.success)
               /\ SetExecState(
                    Complete([x0 EXCEPT !.req[r].mode = "direct",
                                        !.req[r].under = "returned"],
                             r, EvalResult(out), FALSE))
             ELSE
               /\ UNCHANGED apiMetrics
               /\ SetExecState([x0 EXCEPT !.req[r].mode = "direct",
                                          !.req[r].pc = "awaiting",
                                          !.req[r].under = "pending"])

\* faulty variant: the continuation of executeCode runs whenever the
\* underlying call comes back, also after the race was decided
UnderlyingReturnsOverwrites(r, res, ok) ==
  /\ req[r].under = "pending"
  /\ apiMetrics' = UpdateApiMetrics(apiMetrics, ok)
  /\ SetExecState(
       Complete([ExecState EXCEPT !.req[r].under =
                   IF req[r].pc = "awaiting" THEN "returned" ELSE "late"],
                r, res, FALSE))
  /\ UNCHANGED <<executionStartTime, nextReq, cfgVars, mgrVars, wrkVars>>
  /\ UNCHANGED otherVars
  /\ invoked' = <<>>

\* the underlying direct-mode call of request r comes back with result res
\* (executeDWScript resolves): the race of executeCode takes it if it is
\* still undecided, otherwise nobody is listening any more
UnderlyingReturns(r, res, ok) ==
  /\ req[r].under = "pending"
  /\ apiMetrics' = UpdateApiMetrics(apiMetrics, ok)
  /\ SetExecState(
       IF req[r].pc = "awaiting"
       THEN Complete([ExecState EXCEPT !.req[r].under = "returned"],
                     r, res, FALSE)
       ELSE [ExecState EXCEPT !.req[r].under = "late"])
  /\ UNCHANGED <<executionStartTime, nextReq, cfgVars, mgrVars, wrkVars>>
  /\ UNCHANGED otherVars
  /\ invoked' = <<>>

\* the interpreter's promise settles
InterpreterSettles(r, out) ==
  /\ UnderlyingReturns(r, EvalResult(out),
                       out.kind = "result" /\ out.raw.success)

\* executor.js:124-126: the timer of the race fires first when it is not
\* longer than the timer DWScriptAPI.eval armed after it
ExecutorTimeout(r) ==
  /\ req[r].mode = "direct"
  /\ req[r].pc = "awaiting"
  /\ req[r].under = "pending"
  /\ req[r].timeout > 0
  /\ req[r].timeout <= ApiExecutionTimeout
  /\ SetExecState(Complete(ExecState, r, TimeoutResult, TRUE))
  /\ UNCHANGED <<executionStartTime, nextReq, cfgVars, apiMetrics, mgrVars,
                 wrkVars>>
  /\ UNCHANGED otherVars
  /\ invoked' = <<>>

\* dwscript-api.js:272-282: the timer of executeWithTimeout fires; eval
\* catches the rejection and returns normalizeError(error)
ApiTimeout(r) ==
  /\ req[r].pc = "awaiting" =>
       (req[r].timeout = 0 \/ req[r].timeout > ApiExecutionTimeout)
  /\ UnderlyingReturns(r, NormalizeError(ApiTimeoutError), FALSE)

\* ------------------------------------------- executor.js: stopExecution
StopExecution ==
  /\ isExecuting
  /\ UNCHANGED <<executionStartTime, nextReq, cfgVars, apiMetrics,
                 modeWatch>>
  /\ UNCHANGED otherVars
  /\ invoked' = <<>>
  /\ IF useWorkerExecution /\ isWorkerReady THEN
       \* stopWorkerExecution: terminate, reject every handler, initWorker;
       \* the tail of stopExecution runs when the new worker is ready
       /\ SetExecState(CaughtAll(ExecState, AscSeq(messageHandlers)))
       /\ messageHandlers' = {}
       /\ isWorkerReady' = FALSE
       /\ stopPending' = TRUE
       /\ CreateWorker
     ELSE
       /\ SetExecState(StopTail(ExecState))
       /\ UNCHANGED <<mgrVars, wState, wReq, wTimer, inbox, outbox>>

\* ---------------------------------- executor.js: setWorkerExecutionMode
SetWorkerExecutionMode(enabled) ==
  /\ returned' = <<>>
  /\ UNCHANGED <<quietVars, executionConfig, wasmReady, apiMetrics,
                 isWorkerReady, messageHandlers, stopPending>>
  /\ UNCHANGED otherVars
  /\ invoked' = <<>>
  /\ IF enabled /\ ~isWorkerReady THEN
       IF workerInitPromise = "rejected" THEN
         \* initWorker() returns the rejected promise: catch runs
         /\ useWorkerExecution' = FALSE
         /\ UNCHANGED <<worker, workersCreated, workerInitPromise, onmessage,
                        modeWatch, wState, wReq, wTimer, inbox, outbox>>
       ELSE
         /\ useWorkerExecution' = TRUE
         /\ modeWatch' = TRUE
         /\ IF workerInitPromise = "null" THEN CreateWorker
            ELSE UNCHANGED <<worker, workersCreated, workerInitPromise,
                             onmessage, wState, wReq, wTimer, inbox, outbox>>
     ELSE
       /\ useWorkerExecution' = enabled
       /\ UNCHANGED <<worker, workersCreated, workerInitPromise, onmessage,
                      modeWatch, wState, wReq, wTimer, inbox, outbox>>

\* --------------------------------------- executor.js: configureTimeout
ConfigInputs ==
  [dt : {[given |-> FALSE, ms |-> 0]},
   en : {"undefined", "true", "false"},
   mx : {[given |-> FALSE, ms |-> 0]}]

Min(a, b) == IF a <= b THEN a ELSE b

ConfigureTimeout(c) ==
  /\ returned' = <<>>
  /\ executionConfig' =
       [defaultTimeout |->
          IF c.dt.given
          THEN Min(c.dt.ms, executionConfig.maxExecutionTime)
          ELSE executionConfig.defaultTimeout,
        enableTimeout |->
          IF c.en = "undefined" THEN executionConfig.enableTimeout
          ELSE c.en = "true",
        maxExecutionTime |->
          IF c.mx.given THEN c.mx.ms ELSE executionConfig.maxExecutionTime]
  /\ UNCHANGED <<quietVars, useWorkerExecution, wasmReady, apiMetrics,
                 mgrVars, wrkVars>>
  /\ UNCHANGED otherVars
  /\ invoked' = <<>>

ResetExecutionMetrics ==
  /\ executionMetrics' = ZeroMetrics
  /\ returned' = <<>>
  /\ UNCHANGED <<isExecuting, executionStartTime, executionTimer, nextReq,
                 req, cfgVars, apiMetrics, mgrVars, wrkVars>>
  /\ UNCHANGED otherVars
  /\ invoked' = <<>>

\* ------------------------------------------- wasm-loader.js: initWASM
InitWASM(ok) ==
  /\ ~wasmReady
  /\ wasmReady' = ok
  /\ returned' = <<>>
  /\ UNCHANGED <<quietVars, useWorkerExecution, executionConfig, apiMetrics,
                 mgrVars, wrkVars>>
  /\ UNCHANGED otherVars
  /\ invoked' = <<>>

\* ------------------------------ worker-manager.js: worker.onmessage
\* The main thread handles the oldest message the worker posted.  The
\* installed onmessage is the chain resultHandler_n ( ... resultHandler_1
\* ( readyHandler ; handleWorkerMessage )).  handleWorkerMessage finds no
\* messageId in any message of the worker and so only logs.

AwaitingInit == { r \in Req : req[r].pc = "awaitInit" }

\* {type:'ready'}: the init promise resolves; executeInWorker calls waiting
\* for it register and post, a suspended stopExecution runs its tail
DeliverReady ==
  /\ outbox # <<>> /\ Head(outbox).type = "ready"
  /\ outbox' = Tail(outbox)
  /\ isWorkerReady' = TRUE
  /\ workerInitPromise' = "resolved"
  /\ modeWatch' = FALSE
  /\ stopPending' = FALSE
  /\ LET x0 == IF stopPending THEN StopTail(ExecState) ELSE ExecState
     IN SetExecState(
          [x0 EXCEPT !.req = [r \in Req |->
             IF r \in AwaitingInit THEN [x0.req[r] EXCEPT !.pc = "awaiting"]
             ELSE x0.req[r]]])
  /\ messageHandlers' = messageHandlers \cup AwaitingInit
  /\ onmessage' = Reverse(AscSeq(AwaitingInit)) \o onmessage
  /\ inbox' = inbox \o AscSeq(AwaitingInit)
  /\ UNCHANGED <<executionStartTime, nextReq, cfgVars, apiMetrics, worker,
                 workersCreated, wState, wReq, wTimer>>
  /\ UNCHANGED otherVars
  /\ invoked' = <<>>

\* {type:'init-error'}: the init promise rejects
DeliverInitError ==
  /\ outbox # <<>> /\ Head(outbox).type = "init-error"
  /\ outbox' = Tail(outbox)
  /\ workerInitPromise' = "rejected"
  /\ modeWatch' = FALSE
  /\ stopPending' = FALSE
  /\ useWorkerExecution' = IF modeWatch THEN FALSE ELSE useWorkerExecution
  /\ SetExecState(
       CaughtAll(IF stopPending THEN StopTail(ExecState) ELSE ExecState,
                 AscSeq(AwaitingInit)))
  /\ UNCHANGED <<executionStartTime, nextReq, executionConfig, wasmReady,
                 apiMetrics, worker, workersCreated, isWorkerReady,
                 messageHandlers, onmessage, wState, wReq, wTimer, inbox>>
  /\ UNCHANGED otherVars
  /\ invoked' = <<>>

\* {type:'output'}: every wrapped resultHandler calls its request's sink
DeliverOutput ==
  /\ outbox # <<>> /\ Head(outbox).type = "output"
  /\ outbox' = Tail(outbox)
  /\ UNCHANGED otherVars
  /\ invoked' = [i \in 1..Len(onmessage) |->
                   [sink |-> onmessage[i], from |-> Head(outbox).from,
                    chunk |-> Head(outbox).chunk]]
  /\ returned' = <<>>
  /\ UNCHANGED <<quietVars, cfgVars, apiMetrics, mgrVars, wState, wReq,
                 wTimer, inbox>>

\* {type:'result'}, {type:'timeout'}, {type:'error'}: every wrapped
\* resultHandler deletes its Map entry and settles its promise
DeliverSettle ==
  /\ outbox # <<>> /\ Head(outbox).type \in {"result", "timeout", "error"}
  /\ outbox' = Tail(outbox)
  /\ messageHandlers' = messageHandlers \ Range(onmessage)
  /\ SetExecState(SettleAll(ExecState, onmessage, Head(outbox)))
  /\ UNCHANGED <<executionStartTime, nextReq, cfgVars, apiMetrics, worker,
                 workersCreated, isWorkerReady, workerInitPromise, onmessage,
                 modeWatch, stopPending, wState, wReq, wTimer, inbox>>
  /\ UNCHANGED otherVars
  /\ invoked' = <<>>

\* ------------------------------------- global.d.ts: the worker thread
\* initializeWASM ends: 'ready', or 'init-error' when loading failed
WorkerInitialized(ok) ==
  /\ wState = "initializing"
  /\ wState' = IF ok THEN "idle" ELSE "failed"
  /\ outbox' = Append(outbox,
                 Msg(IF ok THEN "ready" ELSE "init-error", 0, 0, NoResult))
  /\ returned' = <<>>
  /\ UNCHANGED <<quietVars, cfgVars, apiMetrics, mgrVars, wReq, wTimer,
                 inbox>>
  /\ UNCHANGED otherVars
  /\ invoked' = <<>>

\* global.d.ts:485-531: result of the worker's executeCode for what eval
\* returned or threw
WorkerResult(out) ==
  IF out.kind = "throw"
  THEN [success |-> FALSE, hasErrors |-> TRUE,
        errors |-> << [type |-> "ExecutionError", message |-> "boom",
                       line |-> 0, column |-> 0] >>]
  ELSE [success |-> out.raw.success, hasErrors |-> TRUE,
        errors |-> IF Truthy(out.raw.error)
                   THEN <<NormalizeErrorObject(out.raw.error)>> ELSE <<>>]

\* the {type:'output'} messages of the first n chunks request q prints
Outputs(q, n) == [k \in 1..n |-> Msg("output", q, k, NoResult)]

\* data.timeout of the 'execute' message of request q
PostedTimeout(q) == req[q].timeout

\* The worker's event loop is free and takes its next task, which runs to
\* completion: the callback of a due timer (global.d.ts:474-481, posts
\* 'timeout'), else the next 'execute' message.  executeCode arms the
\* timer and calls dwsAPI.eval, which prints n chunks through onOutput and
\* then returns or throws (the timer is cleared and 'result' posted), or
\* never returns (out is Promise here: nothing comes back), and then the
\* task never ends and the event loop stays occupied.
WorkerTakesTask(n, out) ==
  /\ wState = "idle"
  /\ wTimer = "due" \/ inbox # <<>>
  /\ IF wTimer = "due" THEN
       /\ wTimer' = "off"
       /\ outbox' = Append(outbox, Msg("timeout", 0, 0, NoResult))
       /\ UNCHANGED <<wState, wReq, inbox>>
     ELSE
       LET q == Head(inbox) IN
       /\ inbox' = Tail(inbox)
       /\ IF out.kind = "promise" THEN
            /\ wState' = "hung"
            /\ wReq' = q
            /\ wTimer' = IF PostedTimeout(q) > 0 THEN "armed" ELSE "off"
            /\ outbox' = outbox \o Outputs(q, n)
          ELSE
            /\ wTimer' = "off"
            /\ outbox' = Append(outbox \o Outputs(q, n),
                                Msg("result", q, 0, WorkerResult(out)))
            /\ UNCHANGED <<wState, wReq>>
  /\ returned' = <<>>
  /\ UNCHANGED <<quietVars, cfgVars, apiMetrics, mgrVars>>
  /\ UNCHANGED otherVars
  /\ invoked' = <<>>

\* the time budget of the eval that never returns elapses; the callback
\* needs the event loop, which the eval occupies
WorkerTimerDue ==
  /\ wState = "hung"
  /\ wTimer = "armed"
  /\ wTimer' = "due"
  /\ returned' = <<>>
  /\ UNCHANGED <<quietVars, cfgVars, apiMetrics, mgrVars, wState, wReq,
                 inbox, outbox>>
  /\ UNCHANGED otherVars
  /\ invoked' = <<>>

\* ------------------------------------------------------------ behaviours
Next ==
  \/ \E uw \in UseWorkerOpts, to \in TimeoutOpts,
        out \in Outcomes \cup {Promise} : ExecuteCode(uw, to, out)
  \/ \E r \in Req, out \in Outcomes : InterpreterSettles(r, out)
  \/ \E r \in Req : ExecutorTimeout(r)
  \/ \E r \in Req : ApiTimeout(r)
  \/ StopExecution
  \/ \E enabled \in BOOLEAN : SetWorkerExecutionMode(enabled)
  \/ \E c \in ConfigInputs : ConfigureTimeout(c)
  \/ ResetExecutionMetrics
  \/ \E ok \in BOOLEAN : InitWASM(ok)
  \/ DeliverReady
  \/ DeliverInitError
  \/ DeliverOutput
  \/ DeliverSettle
  \/ \E ok \in BOOLEAN : WorkerInitialized(ok)
  \/ \E n \in 0..MaxChunks, out \in Outcomes \cup {Promise} :
        WorkerTakesTask(n, out)
  \/ WorkerTimerDue

Spec == Init /\ [][Next]_vars

\* Scheduling: the event loop of the main thread handles every message
\* that is queued, the worker thread runs every task it can take, and
\* armed timers elapse and fire.  Calls of the user and the settling of
\* the interpreter's promise are not forced.
Fairness ==
  /\ WF_vars(DeliverReady)
  /\ WF_vars(DeliverInitError)
  /\ WF_vars(DeliverOutput)
  /\ WF_vars(DeliverSettle)
  /\ WF_vars(\E ok \in BOOLEAN : WorkerInitialized(ok))
  /\ WF_vars(\E n \in 0..MaxChunks, out \in Outcomes \cup {Promise} :
               WorkerTakesTask(n, out))
  /\ WF_vars(WorkerTimerDue)
  /\ WF_vars(\E r \in Req : ExecutorTimeout(r))
  /\ WF_vars(\E r \in Req : ApiTimeout(r))

FairSpec == Spec /\ Fairness

\* ------------------------------------------------------------ properties
Unresolved == { r \in Req : req[r].pc \in {"awaiting", "awaitInit"} }

\* C1: a call of executeCode made while an earlier call has not resolved
\* returns the 'Already executing' result at once and starts nothing.
C1_AlreadyExecuting ==
  [][(nextReq' = nextReq + 1 /\ Unresolved # {}) =>
       /\ Len(returned') = 1
       /\ returned'[1].r = nextReq'
       /\ returned'[1].how = "busy"
       /\ req'[nextReq'].under = "none"]_vars

C3_MetricsConsistent ==
  /\ executionMetrics.totalExecutions =
       executionMetrics.successfulExecutions
         + executionMetrics.failedExecutions
  /\ executionMetrics.timeouts <= executionMetrics.failedExecutions

\* a success and a timeout have both been counted
C3_Witness ==
  /\ executionMetrics.successfulExecutions > 0
  /\ executionMetrics.timeouts > 0
  /\ executionMetrics.totalExecutions = 2

\* the requests that were started and complete in this step
Completing ==
  { r \in Req : /\ req[r].pc # "done"
                /\ req'[r].pc = "done"
                /\ req'[r].how \in {"result", "timeout", "caught"} }

\* C4: every started request adds exactly one to totalExecutions when it
\* completes, however it completes.
C4_OneUpdatePerRequest ==
  [][Completing # {} =>
       executionMetrics'.totalExecutions =
         executionMetrics.totalExecutions + Cardinality(Completing)]_vars

\* C5: every result executeCode returns has success = true exactly when
\* its errors array is empty.
C5_ResultInvariant ==
  \A i \in 1..Len(returned) :
    returned[i].result.success <=>
      (returned[i].result.hasErrors /\ returned[i].result.errors = <<>>)

\* C6: a chunk the interpreter printed invokes one output sink, the one of
\* the request that printed it, also in a later execution on a worker that
\* ran an execution before (executions that do not overlap).
C6_OneSinkPerChunk ==
  (invoked # <<>> /\ Cardinality(Unresolved) <= 1) =>
    /\ Len(invoked) = 1
    /\ invoked[1].sink = invoked[1].from

\* the messages of the errors of a result
Messages(res) == { res.errors[k].message : k \in 1..Len(res.errors) }

\* C7: a request called with timeout 0 has no timer (none raced in direct
\* mode, none posted to the worker) and never ends with a TimeoutError or
\* an 'Execution timeout' error.
C7_ZeroDisablesTimeout ==
  /\ \A r \in Unresolved : req[r].opt = 0 => req[r].timeout = 0
  /\ \A i \in 1..Len(returned) :
       returned[i].opt = 0 =>
         /\ returned[i].how # "timeout"
         /\ Messages(returned[i].result)
              \cap {"Execution timed out", "Execution timeout"} = {}

\* C8: a worker-mode request with a timeout T > 0 whose evaluation never
\* returns eventually resolves: with the TimeoutError result, or rejected
\* because the user stopped it first.
C8_WorkerTimeoutResolves ==
  \A r \in Req :
    (req[r].mode = "worker" /\ req[r].pc = "awaiting" /\ req[r].opt > 0
       /\ wState = "hung" /\ wReq = r)
    ~> (req[r].pc = "done" /\ req[r].how \in {"timeout", "caught"})

\* C9: once the timeout of the evaluation a worker is stuck in has elapsed,
\* that worker is terminated and replaced.
C9_TimeoutReplacesWorker ==
  \A w \in 1..MaxWorkers :
    (worker = w /\ wState = "hung" /\ wTimer = "due") ~> (worker # w)

\* C10: stopExecution called while a request is in flight in the worker
\* replaces the worker and rejects the promise of that request, whether
\* worker mode was chosen globally or by the call.
C10_StopTerminatesWorker ==
  [][StopExecution =>
       \A r \in Req :
         (req[r].mode = "worker" /\ req[r].pc = "awaiting") =>
           /\ worker' # worker
           /\ req'[r].pc = "done" /\ req'[r].how = "caught"]_vars

\* direct-mode calls the orchestrator has given up: still suspended in
\* their await although stopExecution cleared the busy flag, or although a
\* later request has started since
Abandoned ==
  { r \in Req : /\ req[r].mode = "direct"
                /\ req[r].pc = "awaiting"
                /\ req[r].under = "pending"
                /\ (~isExecuting \/ executionStartTime # r) }

\* C11: when the underlying call of a stopped direct-mode execution comes
\* back, its result is dropped: executionMetrics are not updated and the
\* busy flag, the live timer and the start time stay as they are.
C11_StoppedResultDiscarded ==
  [][\A r \in Abandoned :
       req'[r].under # "pending" =>
         /\ executionMetrics' = executionMetrics
         /\ isExecuting' = isExecuting
         /\ executionTimer' = executionTimer
         /\ executionStartTime' = executionStartTime]_vars

\* ------------------------------------ uncaught errors inside the worker
PendingErrors == { i \in 1..Len(outbox) : outbox[i].type = "worker-error" }

\* global.d.ts:684-695: self.onerror posts {type:'worker-error'}; it runs
\* when the worker's event loop is free
WorkerUncaughtError ==
  /\ wState \in {"initializing", "idle"}
  /\ Cardinality(PendingErrors) < MaxPendingErrors
  /\ outbox' = Append(outbox, Msg("worker-error", 0, 0, NoResult))
  /\ returned' = <<>>
  /\ UNCHANGED otherVars
  /\ invoked' = <<>>
  /\ UNCHANGED <<quietVars, cfgVars, apiMetrics, mgrVars, wState, wReq,
                 wTimer, inbox>>

\* {type:'worker-error'}: no resultHandler and no readyHandler has a case
\* for it, and handleWorkerMessage (worker-manager.js:534-536) logs it
DeliverWorkerError ==
  /\ outbox # <<>> /\ Head(outbox).type = "worker-error"
  /\ outbox' = Tail(outbox)
  /\ returned' = <<>>
  /\ UNCHANGED otherVars
  /\ invoked' = <<>>
  /\ UNCHANGED <<quietVars, cfgVars, apiMetrics, mgrVars, wState, wReq,
                 wTimer, inbox>>

ErrNext == Next \/ WorkerUncaughtError \/ DeliverWorkerError

ErrSpec == Init /\ [][ErrNext]_vars

\* C12: when the main thread handles a 'worker-error' message while a
\* request is in flight in the worker, that request ends as a failure:
\* executeCode returns a result with success false and the busy flag is
\* cleared.
C12_WorkerErrorFailsRequest ==
  [][DeliverWorkerError =>
       \A r \in Req :
         (req[r].mode = "worker" /\ req[r].pc = "awaiting") =>
           /\ req'[r].pc = "done"
           /\ ~isExecuting'
           /\ \E i \in 1..Len(returned') :
                returned'[i].r = r /\ ~returned'[i].result.success]_vars

\* C13: a started call of executeCode that stops waiting returns a result
\* object with a boolean success field in that same step (it does not
\* reject), and the busy flag is false afterwards.
C13_NeverRejects ==
  [][\A r \in Req :
       (req[r].pc # "done" /\ req'[r].pc = "done") =>
         \E i \in 1..Len(returned') :
           /\ returned'[i].r = r
           /\ returned'[i].result.success \in BOOLEAN
           /\ returned'[i].how \in {"result", "timeout", "caught"}
                => ~isExecuting']_vars

\* a call whose await threw has returned {success: false}, busy flag clear
C13_Witness ==
  /\ ~isExecuting
  /\ \E i \in 1..Len(returned) :
       returned[i].how = "caught" /\ ~returned[i].result.success
\* ==================================================== turtle-engine.js
\* Bound: how far from the centre of the canvas, in pixels, forward() is
\* followed
MaxDist == 100

\* Arguments of the calls: angles are whole quarter turns, so that the
\* sine and cosine of every heading are exactly -1, 0 or 1
Angles == {-90, 0, 90, 450}
Distances == {100}
Coords == {-7, 40}
Colors == {"#FF0000"}
PenWidths == {0, 3}
Speeds == {-1, 12}

\* JavaScript's %: the remainder has the sign of the dividend
JsRem(a, n) == IF a >= 0 THEN a % n ELSE -((-a) % n)

\* Math.cos and Math.sin of a whole number of quarter turns, in degrees
Cos(deg) == CASE deg % 360 = 0 -> 1
              [] deg % 360 = 180 -> -1
              [] OTHER -> 0
Sin(deg) == CASE deg % 360 = 90 -> 1
              [] deg % 360 = 270 -> -1
              [] OTHER -> 0

Max(a, b) == IF a >= b THEN a ELSE b

\* turtle-engine.js:39-51: reset() assigns these fields and clears the
\* canvas; speed is not among them
reset(t) ==
  [t EXCEPT !.x2 = t.canvas.width, !.y2 = t.canvas.height,
            !.heading = 0,
            !.penDown = TRUE,
            !.penColor = "#000000",
            !.penWidth = 1,
            !.fillColor = "#000000",
            !.visible = TRUE,
            !.commandQueue = <<>>]

forwardCommitsXOnly(t, distance) ==
  [t EXCEPT !.x2 = t.x2 + 2 * distance * Cos(t.heading - 90)]

\* turtle-engine.js:68-86
forward(t, distance) ==
  [t EXCEPT !.x2 = t.x2 + 2 * distance * Cos(t.heading - 90),
            !.y2 = t.y2 + 2 * distance * Sin(t.heading - 90)]

\* turtle-engine.js:74-83: the segment forward() strokes
Segment(t, distance) ==
  IF t.penDown
  THEN << [fromX2 |-> t.x2, fromY2 |-> t.y2,
           toX2 |-> forward(t, distance).x2,
           toY2 |-> forward(t, distance).y2] >>
  ELSE <<>>

\* turtle-engine.js:92-94
backward(t, distance) == forward(t, -distance)

\* turtle-engine.js:100-103
turnLeft(t, angle) ==
  LET h == JsRem(t.heading - angle, 360)
  IN  [t EXCEPT !.heading = IF h < 0 THEN h + 360 ELSE h]

\* turtle-engine.js:109-111
turnRight(t, angle) ==
  [t EXCEPT !.heading = JsRem(t.heading + angle, 360)]

\* turtle-engine.js:117-120
setHeading(t, angle) ==
  LET h == JsRem(angle, 360)
  IN  [t EXCEPT !.heading = IF h < 0 THEN h + 360 ELSE h]

\* turtle-engine.js:171-175
home(t) ==
  [t EXCEPT !.x2 = t.canvas.width, !.y2 = t.canvas.height, !.heading = 0]

setPositionSameSign(t, x, y) ==
  [t EXCEPT !.x2 = t.canvas.width + 2 * x,
            !.y2 = t.canvas.height + 2 * y]

\* turtle-engine.js:183-187
setPosition(t, x, y) ==
  [t EXCEPT !.x2 = t.canvas.width + 2 * x,
            !.y2 = t.canvas.height - 2 * y]

\* turtle-engine.js:193-203: getX() and getY(), in half pixels
getX2(t) == t.x2 - t.canvas.width
getY2(t) == t.canvas.height - t.y2

\* turtle-engine.js:209-211
getHeading(t) == t.heading

\* turtle-engine.js:236-253: arc() strokes around the position and turns
arc(t, radius, extent) ==
  LET newHeading == JsRem(t.heading + extent, 360)
  IN  [t EXCEPT !.heading =
         IF newHeading < 0 THEN newHeading + 360 ELSE newHeading]

\* turtle-engine.js:303-305
setSpeed(t, speed) == [t EXCEPT !.speed = Max(0, Min(10, speed))]

\* ---------------------------------------------------- the calls, as steps
\* a call of a TurtleEngine method that strokes no line
Call(t) ==
  /\ turtle' = t
  /\ stroked' = <<>>
  /\ UNCHANGED <<trail, origin, progVars, animVars>>

InReach(t) ==
  /\ t.x2 - t.canvas.width \in (-2 * MaxDist)..(2 * MaxDist)
  /\ t.y2 - t.canvas.height \in (-2 * MaxDist)..(2 * MaxDist)

Forward(d) ==
  /\ InReach(forward(turtle, d))
  /\ turtle' = forward(turtle, d)
  /\ stroked' = Segment(turtle, d)
  /\ UNCHANGED <<trail, origin, progVars, animVars>>

Backward(d) ==
  /\ InReach(backward(turtle, d))
  /\ turtle' = backward(turtle, d)
  /\ stroked' = Segment(turtle, -d)
  /\ UNCHANGED <<trail, origin, progVars, animVars>>

TurnLeft(a) == Call(turnLeft(turtle, a))
TurnRight(a) == Call(turnRight(turtle, a))
SetHeading(a) == Call(setHeading(turtle, a))
Arc(r, e) == Call(arc(turtle, r, e))
Home == Call(home(turtle))
Reset == Call(reset(turtle))
SetPosition(x, y) == Call(setPosition(turtle, x, y))
\* turtle-engine.js:125-134
PenUp == Call([turtle EXCEPT !.penDown = FALSE])
PenDownCmd == Call([turtle EXCEPT !.penDown = TRUE])
\* turtle-engine.js:140-158
SetPenColor(c) == Call([turtle EXCEPT !.penColor = c])
SetPenWidth(w) == Call([turtle EXCEPT !.penWidth = Max(1, w)])
SetFillColor(c) == Call([turtle EXCEPT !.fillColor = c])
\* turtle-engine.js:283-295
ShowTurtle == Call([turtle EXCEPT !.visible = TRUE])
HideTurtle == Call([turtle EXCEPT !.visible = FALSE])
SetSpeed(s) == Call(setSpeed(turtle, s))

TurtleNext ==
  \/ \E d \in Distances : Forward(d)
  \/ \E d \in Distances : Backward(d)
  \/ \E a \in Angles : TurnLeft(a)
  \/ \E a \in Angles : TurnRight(a)
  \/ \E a \in Angles : SetHeading(a)
  \/ \E r \in Distances, e \in Angles : Arc(r, e)
  \/ Home
  \/ Reset
  \/ \E x \in Coords, y \in Coords : SetPosition(x, y)
  \/ PenUp
  \/ PenDownCmd
  \/ \E c \in Colors : SetPenColor(c)
  \/ \E w \in PenWidths : SetPenWidth(w)
  \/ \E c \in Colors : SetFillColor(c)
  \/ ShowTurtle
  \/ HideTurtle
  \/ \E s \in Speeds : SetSpeed(s)

\* A page whose only activity is the running script's turtle calls
TurtleSpec == TurtleInit /\ [][TurtleNext]_vars

\* C14: whatever turnLeft, turnRight, setHeading, arc, home and reset
\* calls were made, with negative, zero or large angles, getHeading()
\* is at least 0 and less than 360.
C14_HeadingNormalized ==
  getHeading(turtle) >= 0 /\ getHeading(turtle) < 360

\* ------------------------------------------------ a run of turtle commands
\* Bound: the number of commands of a run that is followed
MaxTrail == 8

SquareDistances == {50, 100}

\* the turtle placed by setPosition, setHeading and penUp before the run
Placed(c, x, y, h, pd) ==
  [setPosition(setHeading(NewTurtle(c), h), x, y) EXCEPT !.penDown = pd]

RunInit ==
  /\ ProgInit /\ AnimInit /\ SideInit
  /\ \E c \in CanvasSizes, h \in {0, 90, 180, 270}, pd \in BOOLEAN :
       turtle = Placed(c, -7, 40, h, pd)
  /\ stroked = <<>>
  /\ trail = <<>>
  /\ origin = turtle

\* the script calls forward(d)
RunForward(d) ==
  /\ Len(trail) < MaxTrail
  /\ turtle' = forward(turtle, d)
  /\ stroked' = Segment(turtle, d)
  /\ trail' = Append(trail, [command |-> "forward", arg |-> d,
                             strokes |-> Segment(turtle, d)])
  /\ UNCHANGED <<origin, progVars, animVars>>

\* the script calls turnRight(a)
RunTurnRight(a) ==
  /\ Len(trail) < MaxTrail
  /\ turtle' = turnRight(turtle, a)
  /\ stroked' = <<>>
  /\ trail' = Append(trail, [command |-> "turnRight", arg |-> a,
                             strokes |-> <<>>])
  /\ UNCHANGED <<origin, progVars, animVars>>

RunNext ==
  \/ \E d \in SquareDistances : RunForward(d)
  \/ RunTurnRight(90)

RunSpec == RunInit /\ [][RunNext]_vars

\* the commands of a run, and everything they stroked, in order
Script(run) ==
  [i \in 1..Len(run) |-> [command |-> run[i].command, arg |-> run[i].arg]]

RECURSIVE Strokes(_)
Strokes(run) ==
  IF run = <<>> THEN <<>> ELSE run[1].strokes \o Strokes(Tail(run))

\* (forward(d); turnRight(90)) four times
Square(d) ==
  [i \in 1..8 |-> IF i % 2 = 1
                  THEN [command |-> "forward", arg |-> d]
                  ELSE [command |-> "turnRight", arg |-> 90]]

Abs(n) == IF n >= 0 THEN n ELSE -n

\* length of an axis-parallel segment, in half pixels
Length2(sg) == Abs(sg.toX2 - sg.fromX2) + Abs(sg.toY2 - sg.fromY2)

C16_PositionRoundTrip ==
  [][\A x \in Coords, y \in Coords :
       SetPosition(x, y) =>
         /\ getX2(turtle') = 2 * x
         /\ getY2(turtle') = 2 * y
         /\ [turtle' EXCEPT !.x2 = turtle.x2, !.y2 = turtle.y2] = turtle
         /\ stroked' = <<>>]_vars

\* setPosition(-7, 40) was called on the odd-sized canvas with the pen
\* down and the turtle turned
C16_Witness ==
  /\ turtle.canvas.width = 801
  /\ getX2(turtle) = 2 * (-7)
  /\ getY2(turtle) = 2 * 40
  /\ turtle.penDown
  /\ turtle.heading = 90
  /\ stroked = <<>>

\* C17: after reset(), whatever was called before, every field of the
\* turtle has the value the constructor gave it: position at the centre
\* of the canvas, heading 0, pen down, penColor '#000000', penWidth 1,
\* fillColor '#000000', visible, speed 5, empty command queue.
C17_ResetRestoresDefaults ==
  [][Reset => turtle' = NewTurtle(turtle.canvas)]_vars

\* ======================================= canvas-renderer.js: animation
\* Bounds: the length of the queue and the number of live timeouts
MaxCommands == 2
MaxTimers == 2

\* canvas-renderer.js:199-201: the (command, args) pairs a script records
AnimCommands ==
  {[command |-> "penUp", args |-> <<>>],
   [command |-> "setSpeed", args |-> <<0>>],
   [command |-> "setSpeed", args |-> <<5>>]}

\* canvas-renderer.js:269: command.apply(this.turtle, args)
Apply(t, c) ==
  IF c.command = "setSpeed"
  THEN setSpeed(t, c.args[1])
  ELSE [t EXCEPT !.penDown = FALSE]

\* The controller and its turtle as one value, with what the call made so
\* far: the indices of the commands invoked, the calls of onComplete and
\* the return value of step()
AnimState ==
  [commands |-> commands, currentIndex |-> currentIndex,
   isPlaying |-> isPlaying, isPaused |-> isPaused,
   animationId |-> animationId, timers |-> timers,
   turtle |-> turtle, ran |-> <<>>, completions |-> 0, ret |-> "none"]

TimerCount(a) == a.timers.older + (IF a.timers.latest THEN 1 ELSE 0)

SetAnimState(a, op) ==
  /\ TimerCount(a) <= MaxTimers
  /\ commands' = a.commands
  /\ currentIndex' = a.currentIndex
  /\ isPlaying' = a.isPlaying
  /\ isPaused' = a.isPaused
  /\ animationId' = a.animationId
  /\ timers' = a.timers
  /\ turtle' = a.turtle
  /\ lastCall' = [op |-> op, ran |-> a.ran, completions |-> a.completions,
                  ret |-> IF op = "step" THEN a.ret ELSE "none"]
  /\ stroked' = <<>>
  /\ UNCHANGED <<trail, origin, progVars>>

\* canvas-renderer.js:228-231, 250-253: cancelAnimationFrame(animationId)
\* on the handle setTimeout returned.  Timeouts and animation-frame
\* callbacks have separate handles in a browser, where the call leaves the
\* timeout live; where requestAnimationFrame is built on setTimeout it
\* clears it.  `cancels` is the outcome.
cancelTimer(a, cancels) ==
  IF a.animationId = "set"
  THEN [a EXCEPT !.animationId = "null",
                 !.timers = [latest |-> FALSE,
                             older |-> IF a.timers.latest /\ ~cancels
                                       THEN @.older + 1 ELSE @.older]]
  ELSE a

\* canvas-renderer.js:298-301: setTimeout; the handle replaces animationId
armTimer(a) ==
  [a EXCEPT !.animationId = "set",
            !.timers = [latest |-> TRUE,
                        older |-> IF @.latest THEN @.older + 1
                                  ELSE @.older]]

\* canvas-renderer.js:246-254
stop(a, cancels) ==
  cancelTimer([a EXCEPT !.isPlaying = FALSE, !.isPaused = FALSE,
                        !.currentIndex = 0], cancels)

\* canvas-renderer.js:259-277
step(a) ==
  IF a.currentIndex >= Len(a.commands)
  THEN [a EXCEPT !.isPlaying = FALSE,
                 !.completions = @ + 1,
                 !.ret = "false"]
  ELSE [a EXCEPT !.turtle = Apply(@, a.commands[a.currentIndex + 1]),
                 !.ran = Append(@, a.currentIndex),
                 !.currentIndex = @ + 1,
                 !.ret = "true"]

\* canvas-renderer.js:282-306
RECURSIVE animate(_, _)
animate(a, cancels) ==
  IF ~a.isPlaying \/ a.isPaused
  THEN a
  ELSE LET s == step(a)
       IN  IF s.ret = "true"
           THEN IF s.turtle.speed = 0
                THEN animate(s, cancels)
                ELSE armTimer(s)
           ELSE stop(s, cancels)

clearKeepsCursor(a, cancels) ==
  cancelTimer([a EXCEPT !.commands = <<>>, !.isPlaying = FALSE,
                        !.isPaused = FALSE], cancels)

\* canvas-renderer.js:206-210
clear(a, cancels) ==
  stop([a EXCEPT !.commands = <<>>, !.currentIndex = 0], cancels)

\* canvas-renderer.js:311-322
RECURSIVE runRest(_)
runRest(a) ==
  IF a.currentIndex < Len(a.commands)
  THEN runRest([a EXCEPT
                  !.turtle = Apply(@, a.commands[a.currentIndex + 1]),
                  !.ran = Append(@, a.currentIndex),
                  !.currentIndex = @ + 1])
  ELSE a

executeAll(a, cancels) ==
  [runRest(stop(a, cancels)) EXCEPT !.completions = @ + 1]

\* ------------------------------------------------- the calls, as steps
\* canvas-renderer.js:199-201
AddCommand(c) ==
  /\ Len(commands) < MaxCommands
  /\ SetAnimState([AnimState EXCEPT !.commands = Append(@, c)],
                  "addCommand")

AnimationClear(cancels) == SetAnimState(clear(AnimState, cancels), "clear")

playRestarts(a, cancels) ==
  animate([a EXCEPT !.isPlaying = TRUE, !.isPaused = FALSE], cancels)

\* canvas-renderer.js:215-221
play(a, cancels) ==
  IF a.isPlaying
  THEN a
  ELSE animate([a EXCEPT !.isPlaying = TRUE, !.isPaused = FALSE], cancels)

Play(cancels) == SetAnimState(play(AnimState, cancels), "play")

\* canvas-renderer.js:226-232
Pause(cancels) ==
  SetAnimState(cancelTimer([AnimState EXCEPT !.isPaused = TRUE], cancels),
               "pause")

\* canvas-renderer.js:237-241
Resume(cancels) ==
  /\ isPaused
  /\ SetAnimState(animate([AnimState EXCEPT !.isPaused = FALSE], cancels),
                  "resume")

Stop(cancels) == SetAnimState(stop(AnimState, cancels), "stop")

Step == SetAnimState(step(AnimState), "step")

ExecuteAll(cancels) ==
  SetAnimState(executeAll(AnimState, cancels), "executeAll")

\* canvas-renderer.js:327-330
AnimationReset(cancels) ==
  SetAnimState([stop(AnimState, cancels) EXCEPT !.currentIndex = 0],
               "reset")

\* canvas-renderer.js:298-301: a live timeout fires: redraw, animate
TimerFires(latest, cancels) ==
  /\ IF latest THEN timers.latest ELSE timers.older > 0
  /\ SetAnimState(
       animate([AnimState EXCEPT
                  !.timers = IF latest
                             THEN [@ EXCEPT !.latest = FALSE]
                             ELSE [@ EXCEPT !.older = @ - 1]],
               cancels),
       "timer")

AnimNext ==
  \/ \E c \in AnimCommands : AddCommand(c)
  \/ \E cancels \in BOOLEAN : AnimationClear(cancels)
  \/ \E cancels \in BOOLEAN : Play(cancels)
  \/ \E cancels \in BOOLEAN : Pause(cancels)
  \/ \E cancels \in BOOLEAN : Resume(cancels)
  \/ \E cancels \in BOOLEAN : Stop(cancels)
  \/ Step
  \/ \E cancels \in BOOLEAN : ExecuteAll(cancels)
  \/ \E cancels \in BOOLEAN : AnimationReset(cancels)
  \/ \E latest \in BOOLEAN, cancels \in BOOLEAN : TimerFires(latest, cancels)

\* A page whose only activity is the sequencer, on a constructed turtle
AnimSpec == Init /\ [][AnimNext]_vars

\* C18: whatever addCommand, play, pause, resume, stop, step, executeAll,
\* reset, clear calls and timer firings happened, the cursor is at least 0
\* and at most the length of the queue.
C18_CursorInRange ==
  currentIndex >= 0 /\ currentIndex <= Len(commands)

\* a timer firing ran the last command of a queue of two
C18_Witness ==
  /\ lastCall.op = "timer"
  /\ lastCall.ran = <<1>>
  /\ Len(commands) = 2
  /\ currentIndex = 2

\* C19: when playback of a non-empty queue has run the last command and
\* completes, onComplete is called once, isPlaying is false, and the
\* cursor equals the length of the queue (isComplete() is true and
\* getProgress() is 1).
C19_CompleteKeepsCursor ==
  ( /\ lastCall.op \in {"play", "resume", "timer"}
    /\ lastCall.completions > 0
    /\ Len(commands) > 0 )
  => /\ lastCall.completions = 1
     /\ ~isPlaying
     /\ currentIndex = Len(commands)

\* C20: step(), in whatever run state: with the cursor below the length of
\* the queue it invokes the command at the cursor, once, and advances the
\* cursor by 1; otherwise it invokes nothing and leaves the cursor; it
\* returns false exactly when the queue is drained after the call.
C20_StepAdvancesOne ==
  [][Step =>
       /\ IF currentIndex < Len(commands)
          THEN /\ lastCall'.ran = <<currentIndex>>
               /\ currentIndex' = currentIndex + 1
          ELSE /\ lastCall'.ran = <<>>
               /\ currentIndex' = currentIndex
       /\ (lastCall'.ret = "false") <=> (currentIndex' >= Len(commands'))]_vars

\* C21: play() while the sequencer is playing does nothing: it invokes no
\* command, arms no timer, and leaves cursor, isPlaying and isPaused (and
\* the timer handle and the turtle) as they were.
C21_PlayWhilePlayingNoOp ==
  [][\A cancels \in BOOLEAN :
       (isPlaying /\ Play(cancels)) =>
         /\ lastCall'.ran = <<>>
         /\ lastCall'.completions = 0
         /\ timers' = timers
         /\ animationId' = animationId
         /\ currentIndex' = currentIndex
         /\ isPlaying' = isPlaying
         /\ isPaused' = isPaused
         /\ commands' = commands
         /\ turtle' = turtle]_vars

\* play() was called in the middle of a timed playback
C21_Witness ==
  /\ lastCall.op = "play"
  /\ lastCall.ran = <<>>
  /\ isPlaying /\ ~isPaused
  /\ timers.latest
  /\ currentIndex = 1
  /\ Len(commands) = 2

\* ------------------------------------------- playback without manual calls
\* play(), pause(), resume() and timer firings on a recorded queue
PlaybackNext ==
  \/ \E c \in AnimCommands : AddCommand(c)
  \/ \E cancels \in BOOLEAN : Play(cancels)
  \/ \E cancels \in BOOLEAN : Pause(cancels)
  \/ \E cancels \in BOOLEAN : Resume(cancels)
  \/ \E latest \in BOOLEAN, cancels \in BOOLEAN : TimerFires(latest, cancels)

PlaybackSpec == Init /\ [][PlaybackNext]_vars

\* C26: while a playback is paused no queued command is invoked by
\* anything but resume(); and whatever play(), pause(), resume() calls and
\* timer firings happened, at most one playback timer is live.
C26_OneTimerChain ==
  [][/\ (isPlaying /\ isPaused /\ lastCall'.op # "resume")
          => lastCall'.ran = <<>>
     /\ timers'.older + (IF timers'.latest THEN 1 ELSE 0) <= 1]_vars

\* ---------------------------------------------- ownership of the busy flag
\* The request the busy flag, the clock and the live timer belong to: the
\* one started last, while it is in flight and nobody stopped it
Owner(r) ==
  /\ req[r].pc \in {"awaiting", "awaitInit"}
  /\ isExecuting
  /\ executionStartTime = r
  /\ executionTimer = r

\* C27: as long as a started request is in flight and was not stopped, the
\* busy flag stays set and its timer stays live: no step other than a
\* stopExecution() call or the request's own completion clears them, in
\* particular not the late completion of an earlier, stopped request and
\* not the tail of an earlier stopExecution().
C27_BusyFlagOwnership ==
  [][\A r \in Req :
       (Owner(r) /\ req'[r].pc = req[r].pc /\ ~StopExecution) =>
         (isExecuting' /\ executionTimer' = r)]_vars

\* C28: a 'result', 'timeout' or 'error' message settles only the request
\* on whose behalf the worker posted it: every call in flight that stops
\* waiting when the main thread handles the message is that request.
C28_NoCrossTalk ==
  [][DeliverSettle =>
       \A r \in Req :
         ( /\ req[r].mode = "worker"
           /\ req[r].pc = "awaiting"
           /\ req'[r].pc = "done" )
         => Head(outbox).from = r]_vars

\* ------------------------------------- configureTimeout with every field
\* the arguments of configureTimeout: each field given or left out
TimeoutArgs ==
  [dt : {[given |-> FALSE, ms |-> 0]} \cup
        [given : {TRUE}, ms : {1000, 5000, 15000, 45000, 90000, 200000}],
   en : {"undefined", "true", "false"},
   mx : {[given |-> FALSE, ms |-> 0]} \cup
        [given : {TRUE}, ms : {2000, 10000, 20000, 60000, 300000}]]

ConfigNext == \E c \in TimeoutArgs : ConfigureTimeout(c)

\* A page on which only the settings are changed
ConfigSpec == Init /\ [][ConfigNext]_vars

\* C29: whatever configureTimeout() calls were made, setting
\* defaultTimeout, maxExecutionTime or both, the default timeout is not
\* larger than the maximum execution time.
C29_DefaultWithinMax ==
  executionConfig.defaultTimeout <= executionConfig.maxExecutionTime

\* ====================================================== dwscript-api.js
\* Bound: init() calls that are suspended at the same time
MaxInits == 2

\* cache keys ("" stands for no key: null and '' are both falsy), the ids
\* the interpreter gives to programs, and what a call of the interpreter
\* does: it returns a result or throws
CacheKeys == {"", "a", "b"}
ProgramIds == {1, 2}
InterpreterOutcomes ==
  [kind : {"result"}, success : BOOLEAN, id : ProgramIds] \cup
  {[kind |-> "throw", success |-> FALSE, id |-> 0]}

\* Map.set, Map.delete
Put(m, k, v) == [x \in DOMAIN m \cup {k} |-> IF x = k THEN v ELSE m[x]]
Drop(m, k) == [x \in DOMAIN m \ {k} |-> m[x]]

ApiState ==
  [instance |-> instance, initialized |-> initialized,
   programs |-> programs, initPending |-> initPending,
   disposed |-> disposed, compiled |-> compiled]

SetApiState(a, call) ==
  /\ instance' = a.instance
  /\ initialized' = a.initialized
  /\ programs' = a.programs
  /\ initPending' = a.initPending
  /\ disposed' = a.disposed
  /\ compiled' = a.compiled
  /\ apiCall' = call
  /\ returned' = <<>>
  /\ invoked' = <<>>
  /\ UNCHANGED <<quietVars, cfgVars, apiMetrics, mgrVars, wrkVars>>
  /\ UNCHANGED <<turtleVars, animVars, normVars, shareVars, stateVars>>

\* what a call answered: op, its key or id, the outcome, whether a method
\* of the interpreter instance was called, and the program id given to it
Answer(op, ref, outcome, called, program) ==
  [op |-> op, ref |-> ref, outcome |-> outcome, called |-> called,
   program |-> program]

\* dwscript-api.js:211-215: assertInitialized throws
NotInitialized(op, ref) ==
  SetApiState(ApiState, Answer(op, ref, "not initialized", FALSE, 0))

\* this.instance.method(...) with this.instance null: a TypeError, which
\* the try block of compile, eval and run turns into normalizeError(error)
OnNull(op, ref) ==
  SetApiState(ApiState, Answer(op, ref, "TypeError", FALSE, 0))

\* dwscript-api.js:38-49: init() up to its await.  The new interpreter
\* object replaces this.instance at once
InitBegins(loaded) ==
  IF ~loaded
  THEN SetApiState(ApiState,
                   Answer("init", "", "module not loaded", FALSE, 0))
  ELSE /\ initPending.old + (IF initPending.current THEN 1 ELSE 0) < MaxInits
       /\ SetApiState(
            [ApiState EXCEPT
               !.instance = "created",
               !.initPending =
                  [current |-> TRUE,
                   old |-> IF @.current THEN @.old + 1 ELSE @.old]],
            Answer("init", "", "awaiting", TRUE, 0))

\* dwscript-api.js:45-55: instance.init() settles and init() goes on: on
\* success it sets initialized and asks this.instance, whatever that is
\* now, for its version
InitSettles(current, ok) ==
  /\ IF current THEN initPending.current ELSE initPending.old > 0
  /\ LET a0 == [ApiState EXCEPT
                  !.initPending = IF current
                                  THEN [@ EXCEPT !.current = FALSE]
                                  ELSE [@ EXCEPT !.old = @ - 1]]
     IN  IF ~ok
         THEN SetApiState(
                [a0 EXCEPT !.instance = IF current THEN "failed" ELSE @],
                Answer("init settles", "", "rejected", FALSE, 0))
         ELSE LET a1 == [a0 EXCEPT
                           !.initialized = TRUE,
                           !.instance = IF current THEN "ready" ELSE @]
              IN  IF a1.instance = "null"
                  THEN SetApiState(
                         a1, Answer("init settles", "", "TypeError",
                                    FALSE, 0))
                  ELSE SetApiState(
                         [a1 EXCEPT !.disposed = FALSE],
                         Answer("init settles", "", "success", TRUE, 0))

\* a compile that caches whatever the interpreter answered
cachesFailures(success, key) == key # ""

\* dwscript-api.js:73: if (program.success && cacheKey); null and '' are
\* falsy, "" stands for both
shouldCache(success, key) == success /\ key # ""

\* dwscript-api.js:64-84.  The ghost compiled follows the calls by their
\* answers: a successful compile with a key enters it
Compile(key, out) ==
  IF ~initialized THEN NotInitialized("compile", key)
  ELSE IF instance = "null" THEN OnNull("compile", key)
  ELSE IF out.kind = "throw"
  THEN SetApiState(ApiState,
                   Answer("compile", key, "interpreter error", TRUE, 0))
  ELSE SetApiState(
         [ApiState EXCEPT
            !.programs = IF shouldCache(out.success, key)
                         THEN Put(@, key, out.id) ELSE @,
            !.compiled = IF out.success /\ key # ""
                         THEN Put(@, key, out.id) ELSE @],
         Answer("compile", key,
                IF out.success THEN "success" ELSE "failure",
                TRUE, out.id))

\* dwscript-api.js:93-124
Eval(out) ==
  IF ~initialized THEN NotInitialized("eval", "")
  ELSE IF instance = "null" THEN OnNull("eval", "")
  ELSE SetApiState(ApiState,
         Answer("eval", "",
                IF out.kind = "throw" THEN "interpreter error"
                ELSE IF out.success THEN "success" ELSE "failure",
                TRUE, 0))

\* dwscript-api.js:131-149, called with a string
Run(key, out) ==
  IF ~initialized THEN NotInitialized("run", key)
  ELSE IF key \notin DOMAIN programs
  THEN SetApiState(ApiState,
                   Answer("run", key, "Program not found", FALSE, 0))
  ELSE IF instance = "null" THEN OnNull("run", key)
  ELSE SetApiState(ApiState,
         Answer("run", key,
                IF out.kind = "throw" THEN "interpreter error"
                ELSE IF out.success THEN "success" ELSE "failure",
                TRUE, programs[key]))

\* dwscript-api.js:221-227
ClearCache(key) ==
  SetApiState([ApiState EXCEPT
                 !.programs = IF key # "" THEN Drop(@, key) ELSE <<>>,
                 !.compiled = IF key # "" THEN Drop(@, key) ELSE <<>>],
              Answer("clearCache", key, "done", FALSE, 0))

\* dwscript-api.js:233-236
GetVersion ==
  IF ~initialized THEN NotInitialized("getVersion", "")
  ELSE IF instance = "null"
  THEN SetApiState(ApiState,
                   Answer("getVersion", "", "TypeError", FALSE, 0))
  ELSE SetApiState(ApiState, Answer("getVersion", "", "success", TRUE, 0))

\* dwscript-api.js:241-248
Dispose ==
  IF instance # "null"
  THEN SetApiState(
         [ApiState EXCEPT
            !.instance = "null",
            !.initialized = FALSE,
            !.programs = <<>>,
            !.initPending =
               [current |-> FALSE,
                old |-> IF @.current THEN @.old + 1 ELSE @.old],
            !.disposed = TRUE,
            !.compiled = <<>>],
         Answer("dispose", "", "done", TRUE, 0))
  ELSE SetApiState([ApiState EXCEPT !.disposed = TRUE, !.compiled = <<>>],
                   Answer("dispose", "", "done", FALSE, 0))

ApiNext ==
  \/ \E loaded \in BOOLEAN : InitBegins(loaded)
  \/ \E current \in BOOLEAN, ok \in BOOLEAN : InitSettles(current, ok)
  \/ \E key \in CacheKeys, out \in InterpreterOutcomes : Compile(key, out)
  \/ \E out \in InterpreterOutcomes : Eval(out)
  \/ \E key \in CacheKeys, out \in InterpreterOutcomes : Run(key, out)
  \/ \E key \in CacheKeys : ClearCache(key)
  \/ GetVersion
  \/ Dispose

\* A page that only uses the interpreter client
ApiSpec == Init /\ [][ApiNext]_vars

\* C22: after dispose(), and until an init() has succeeded again, every
\* compile(), eval(), run() and getVersion() fails with the 'not
\* initialized' error without calling the interpreter instance, and the
\* program cache is empty.
C22_DisposedRefusesCalls ==
  disposed =>
    /\ programs = <<>>
    /\ apiCall.op \in {"compile", "eval", "run", "getVersion"} =>
         (apiCall.outcome = "not initialized" /\ ~apiCall.called)


\* C23 as stated: for any sequence of compile, run, clearCache and dispose
\* calls, run(key) passes the program to the interpreter iff a compile with
\* that key succeeded and no clearCache(key), clearCache() or dispose()
\* came since; otherwise it returns a failed 'Program not found' result and
\* calls nothing.
C23_RunFindsOrReportsMissing ==
  (apiCall.op = "run" /\ (initialized \/ disposed)) =>
    IF apiCall.ref \in DOMAIN compiled
    THEN apiCall.called /\ apiCall.program = compiled[apiCall.ref]
    ELSE ~apiCall.called /\ apiCall.outcome = "Program not found"

\* C23 amended: the cache holds exactly the programs of the successful
\* compiles with a key that no clearCache(key), clearCache() or dispose()
\* followed; run(key) passes that program to the interpreter iff there is
\* one, and otherwise calls nothing and fails: with a 'Program not found'
\* result while the client is initialized, with the 'not initialized'
\* error while it is not.
C23_RunUsesCache ==
  /\ programs = compiled
  /\ apiCall.op = "run" =>
       IF apiCall.ref \in DOMAIN compiled
       THEN apiCall.called /\ apiCall.program = compiled[apiCall.ref]
       ELSE /\ ~apiCall.called
            /\ apiCall.outcome = IF initialized THEN "Program not found"
                                  ELSE "not initialized"

\* run("a") reaches the interpreter with the program cached under "a"
\* while "b" has been compiled and cleared
C23_Witness ==
  /\ apiCall.op = "run" /\ apiCall.ref = "a" /\ apiCall.called
  /\ apiCall.program = 2
  /\ DOMAIN compiled = {"a"}


\* ============================= dwscript-api.js: normalizeErrorObject
\* A JavaScript value of a field: undefined, a string or a number
Val(t, s, n) == [t |-> t, s |-> s, n |-> n]
Undefined == Val("undefined", "", 0)

\* ToBoolean: undefined, '' and 0 are falsy
JsTruthy(v) ==
  CASE v.t = "undefined" -> FALSE
    [] v.t = "string" -> v.s # ""
    [] v.t = "number" -> v.n # 0

\* a || b
OrElse(a, b) == IF JsTruthy(a) THEN a ELSE b

\* What can be thrown or reported: a string, or a plain object with any of
\* the fields type, message, line, column
ErrorInputs ==
  [kind : {"string"}, s : {"", "boom"}] \cup
  [kind : {"object"},
   type : {Undefined, Val("string", "", 0), Val("string", "SyntaxError", 0),
           Val("number", "", 42)},
   message : {Undefined, Val("string", "", 0), Val("string", "boom", 0)},
   line : {Undefined, Val("number", "", 0), Val("number", "", 3),
           Val("string", "12", 0)},
   column : {Undefined, Val("number", "", 0), Val("number", "", 5)}]

\* dwscript-api.js:186-205 (global.d.ts:663-681 in the worker).
\* String(error) of a plain object is '[object Object]'
normalizeErrorObject(e) ==
  CASE e.kind = "string" ->
         [kind |-> "object",
          type |-> Val("string", "Error", 0),
          message |-> Val("string", e.s, 0),
          line |-> Val("number", "", 0),
          column |-> Val("number", "", 0)]
    [] e.kind = "object" ->
         [kind |-> "object",
          type |-> OrElse(e.type, Val("string", "UnknownError", 0)),
          message |-> OrElse(e.message, Val("string", "[object Object]", 0)),
          line |-> OrElse(e.line, Val("number", "", 0)),
          column |-> OrElse(e.column, Val("number", "", 0))]

Normalize(e) ==
  /\ error' = e
  /\ normalized' = normalizeErrorObject(e)
  /\ UNCHANGED <<execVars, cfgVars, apiMetrics, mgrVars, wrkVars, invoked>>
  /\ UNCHANGED <<turtleVars, animVars, apiVars, shareVars, stateVars>>

NormNext == \E e \in ErrorInputs : Normalize(e)

NormSpec == Init /\ [][NormNext]_vars

\* C24: a bare string s becomes {type:'Error', message:s, line:0,
\* column:0}; any object or exception becomes an object whose type, line
\* and column are the input's values when present and 'UnknownError', 0, 0
\* when missing; the output always has a string type and message and a
\* numeric line and column.
C24_NormalizedShape ==
  /\ error.kind = "string" =>
       normalized = [kind |-> "object",
                     type |-> Val("string", "Error", 0),
                     message |-> Val("string", error.s, 0),
                     line |-> Val("number", "", 0),
                     column |-> Val("number", "", 0)]
  /\ error.kind = "object" =>
       /\ normalized.kind = "object"
       /\ normalized.type.t = "string" /\ normalized.message.t = "string"
       /\ normalized.line.t = "number" /\ normalized.column.t = "number"
  /\ error.kind = "object" =>
       /\ normalized.type = IF error.type = Undefined
                             THEN Val("string", "UnknownError", 0)
                             ELSE error.type
       /\ normalized.line = IF error.line = Undefined
                             THEN Val("number", "", 0) ELSE error.line
       /\ normalized.column = IF error.column = Undefined
                               THEN Val("number", "", 0) ELSE error.column


\* =========================================================== url-sharing.js
\* Bound: length of the shared code in characters
MaxCodeLen == 3

\* A string is the sequence of its UTF-16 code units.  The characters of
\* the shared code: 'A', line feed, e acute, U+FEFF, and U+1F600 with its
\* two surrogates
Characters == {<<65>>, <<10>>, <<233>>, <<65279>>, <<55357, 56832>>}

\* the string made of the characters cs
RECURSIVE Text(_)
Text(cs) == IF cs = <<>> THEN <<>> ELSE Head(cs) \o Text(Tail(cs))

\* url-sharing.js:14-15: new TextEncoder().encode(code).  A surrogate pair
\* is one code point of four bytes, a lone surrogate is encoded as U+FFFD
RECURSIVE utf8(_)
utf8(str) ==
  IF str = <<>> THEN <<>>
  ELSE LET u == Head(str)
           rest == Tail(str)
       IN  IF u < 128 THEN <<u>> \o utf8(rest)
           ELSE IF u < 2048
           THEN <<192 + (u \div 64), 128 + (u % 64)>> \o utf8(rest)
           ELSE IF u \in 55296..56319 /\ rest # <<>>
                   /\ Head(rest) \in 56320..57343
           THEN LET cp == 65536 + (u - 55296) * 1024 + (Head(rest) - 56320)
                IN  <<240 + (cp \div 262144), 128 + ((cp \div 4096) % 64),
                      128 + ((cp \div 64) % 64), 128 + (cp % 64)>>
                    \o utf8(Tail(rest))
           ELSE IF u \in 55296..57343
           THEN <<239, 191, 189>> \o utf8(rest)
           ELSE <<224 + (u \div 4096), 128 + ((u \div 64) % 64), 128 + (u % 64)>>
                \o utf8(rest)

\* the base64 alphabet of btoa and atob
B64 ==
  <<
    "A", "B", "C", "D", "E", "F", "G", "H", "I", "J", "K", "L", "M",
    "N", "O", "P", "Q", "R", "S", "T", "U", "V", "W", "X", "Y", "Z",
    "a", "b", "c", "d", "e", "f", "g", "h", "i", "j", "k", "l", "m",
    "n", "o", "p", "q", "r", "s", "t", "u", "v", "w", "x", "y", "z",
    "0", "1", "2", "3", "4", "5", "6", "7", "8", "9", "+", "/" >>

\* url-sharing.js:18: btoa(String.fromCharCode(...data))
RECURSIVE btoa(_)
btoa(b) ==
  IF b = <<>> THEN <<>>
  ELSE IF Len(b) = 1
  THEN <<B64[(b[1] \div 4) + 1], B64[(b[1] % 4) * 16 + 1], "=", "=">>
  ELSE IF Len(b) = 2
  THEN <<B64[(b[1] \div 4) + 1], B64[(b[1] % 4) * 16 + (b[2] \div 16) + 1],
         B64[(b[2] % 16) * 4 + 1], "=">>
  ELSE <<B64[(b[1] \div 4) + 1], B64[(b[1] % 4) * 16 + (b[2] \div 16) + 1],
         B64[(b[2] % 16) * 4 + (b[3] \div 64) + 1], B64[(b[3] % 64) + 1]>>
       \o btoa(SubSeq(b, 4, Len(b)))

\* String.prototype.replace with a global pattern of one character
Replace(str, from, to) ==
  [i \in 1..Len(str) |-> IF str[i] = from THEN to ELSE str[i]]

\* url-sharing.js:11-26.  The strings here are far below the argument
\* limit of String.fromCharCode(...data), so the catch is not taken
encodeCode(str) ==
  LET base64 == btoa(utf8(str))
      safe == Replace(Replace(base64, "+", "-"), "/", "_")
  IN  SelectSeq(safe, LAMBDA c : c # "=")

\* url-sharing.js:44: atob of padded base64
RECURSIVE atob(_)
atob(c) ==
  IF c = <<>> THEN <<>>
  ELSE LET d == [i \in 1..4 |->
                   IF c[i] = "=" THEN 0
                   ELSE (CHOOSE k \in 1..64 : B64[k] = c[i]) - 1]
       IN  IF c[3] = "=" THEN <<d[1] * 4 + (d[2] \div 16)>>
           ELSE IF c[4] = "="
           THEN <<d[1] * 4 + (d[2] \div 16), (d[2] % 16) * 16 + (d[3] \div 4)>>
           ELSE <<d[1] * 4 + (d[2] \div 16), (d[2] % 16) * 16 + (d[3] \div 4),
                  (d[3] % 4) * 64 + d[4]>>
                \o atob(SubSeq(c, 5, Len(c)))

\* The UTF-8 decoding of new TextDecoder().decode(bytes), before the byte
\* order mark is dealt with: a sequence that is cut short is U+FFFD
RECURSIVE utf8Decode(_)
utf8Decode(b) ==
  IF b = <<>> THEN <<>>
  ELSE IF b[1] < 128 THEN <<b[1]>> \o utf8Decode(Tail(b))
  ELSE IF b[1] \in 192..223 /\ Len(b) >= 2
  THEN <<(b[1] - 192) * 64 + (b[2] - 128)>> \o utf8Decode(SubSeq(b, 3, Len(b)))
  ELSE IF b[1] \in 224..239 /\ Len(b) >= 3
  THEN <<(b[1] - 224) * 4096 + (b[2] - 128) * 64 + (b[3] - 128)>>
       \o utf8Decode(SubSeq(b, 4, Len(b)))
  ELSE IF b[1] \in 240..247 /\ Len(b) >= 4
  THEN LET cp == (b[1] - 240) * 262144 + (b[2] - 128) * 4096
                 + (b[3] - 128) * 64 + (b[4] - 128)
       IN  <<55296 + ((cp - 65536) \div 1024), 56320 + ((cp - 65536) % 1024)>>
           \o utf8Decode(SubSeq(b, 5, Len(b)))
  ELSE <<65533>> \o utf8Decode(Tail(b))

\* url-sharing.js:33-58.  atob throws on a length of 4n+1 and the catch
\* returns ''; a TextDecoder made without ignoreBOM drops a leading U+FEFF
decodeCode(enc) ==
  LET base64 == Replace(Replace(enc, "-", "+"), "_", "/")
      padded == base64 \o [i \in 1..((4 - (Len(base64) % 4)) % 4) |-> "="]
      text == utf8Decode(atob(padded))
  IN  IF Len(base64) % 4 = 1 THEN <<>>
      ELSE IF text # <<>> /\ Head(text) = 65279 THEN Tail(text)
      ELSE text

\* url-sharing.js:192-195, 202-204
compressCode(str) == encodeCode(str)
decompressCode(enc) == decodeCode(enc)

\* the code of a snippet is put into a share link
EncodeCode(str, compress) ==
  /\ code' = str
  /\ encoded' = IF compress THEN compressCode(str) ELSE encodeCode(str)
  /\ decoded' = [done |-> FALSE, s |-> <<>>]
  /\ UNCHANGED <<execVars, cfgVars, apiMetrics, mgrVars, wrkVars, invoked>>
  /\ UNCHANGED <<turtleVars, animVars, apiVars, normVars, stateVars>>

\* the link is opened
DecodeCode(compress) ==
  /\ decoded' = [done |-> TRUE,
                  s |-> IF compress THEN decompressCode(encoded)
                        ELSE decodeCode(encoded)]
  /\ UNCHANGED <<code, encoded>>
  /\ UNCHANGED <<execVars, cfgVars, apiMetrics, mgrVars, wrkVars, invoked>>
  /\ UNCHANGED <<turtleVars, animVars, apiVars, normVars, stateVars>>

ShareNext ==
  \/ \E n \in 0..MaxCodeLen, compress \in BOOLEAN :
        \E cs \in [1..n -> Characters] : EncodeCode(Text(cs), compress)
  \/ \E compress \in BOOLEAN : DecodeCode(compress)

ShareSpec == Init /\ [][ShareNext]_vars

\* C25: for every string s, decodeCode(encodeCode(s)) = s and
\* decompressCode(compressCode(s)) = s.
C25_RoundTrip == decoded.done => decoded.s = code


\* ========================================================= state-manager.ts
Codes == {"x"}

\* JSON texts given to importState: not JSON, {}, {"theme":"dark"}, and an
\* export with a completed lesson and saved code
ImportedJson ==
  {[valid |-> FALSE, keys |-> {}, theme |-> "", completedLessons |-> <<>>,
    userCode |-> [id \in LessonIds |-> ""]],
   [valid |-> TRUE, keys |-> {}, theme |-> "", completedLessons |-> <<>>,
    userCode |-> [id \in LessonIds |-> ""]],
   [valid |-> TRUE, keys |-> {"theme"}, theme |-> "dark",
    completedLessons |-> <<>>, userCode |-> [id \in LessonIds |-> ""]],
   [valid |-> TRUE, keys |-> {"completedLessons", "userCode"}, theme |-> "",
    completedLessons |-> <<"l2">>,
    userCode |-> [id \in LessonIds |-> IF id = "l2" THEN "x" ELSE ""]]}

\* state-manager.ts:54-60: JSON.stringify(state) follows the references
\* and stores the values
saveState(st, hp) ==
  [saved |-> TRUE, theme |-> st.theme,
   completedLessons |-> hp.array[st.completedLessons],
   userCode |-> hp.object[st.userCode]]

\* state-manager.ts:147-149
isLessonCompleted(st, hp, lessonId) ==
  \E i \in DOMAIN hp.array[st.completedLessons] :
    hp.array[st.completedLessons][i] = lessonId

\* state-manager.ts:166-168: state.userCode[lessonId] || null, null is ""
getUserCode(st, hp, lessonId) == hp.object[st.userCode][lessonId]

\* { ...DEFAULT_STATE, ...parsed }: a key of parsed gives the parsed value,
\* a new array or object; any other key gives the value of DEFAULT_STATE,
\* for an array or object the reference to the default one
Spread(parsed, hp) ==
  [st |-> [theme |-> IF "theme" \in parsed.keys THEN parsed.theme
                     ELSE DEFAULT_STATE.theme,
           completedLessons |-> IF "completedLessons" \in parsed.keys THEN 3
                                ELSE DEFAULT_STATE.completedLessons,
           userCode |-> IF "userCode" \in parsed.keys THEN 4
                        ELSE DEFAULT_STATE.userCode],
   hp |-> [array |-> [hp.array EXCEPT ![3] = parsed.completedLessons],
           object |-> [hp.object EXCEPT ![4] = parsed.userCode]]]

SetState(st, hp, store, op) ==
  /\ stateCall' = op
  /\ state' = st
  /\ heap' = hp
  /\ localStorage' = store
  /\ UNCHANGED <<execVars, cfgVars, apiMetrics, mgrVars, wrkVars, invoked>>
  /\ UNCHANGED <<turtleVars, animVars, apiVars, normVars, shareVars>>

\* state-manager.ts:6-28: the page is loaded and the module evaluated
LoadModule == SetState(DEFAULT_STATE, EmptyHeap, localStorage, "load")

\* state-manager.ts:33-49.  What is stored was written by saveState and has
\* every key
InitState ==
  IF localStorage.saved
  THEN LET n == Spread([keys |-> {"theme", "completedLessons", "userCode"},
                        theme |-> localStorage.theme,
                        completedLessons |-> localStorage.completedLessons,
                        userCode |-> localStorage.userCode], heap)
       IN  SetState(n.st, n.hp, localStorage, "initState")
  ELSE SetState(state, heap, localStorage, "initState")

\* state-manager.ts:110-114 with setValue, 96-105
ToggleTheme ==
  LET st == [state EXCEPT !.theme = IF @ = "light" THEN "dark" ELSE "light"]
  IN  SetState(st, heap, saveState(st, heap), "toggleTheme")

\* state-manager.ts:129-140
MarkLessonCompleted(lessonId) ==
  IF ~isLessonCompleted(state, heap, lessonId)
  THEN LET hp == [heap EXCEPT
                    !.array[state.completedLessons] = Append(@, lessonId)]
       IN  SetState(state, hp, saveState(state, hp), "markLessonCompleted")
  ELSE SetState(state, heap, localStorage, "markLessonCompleted")

\* state-manager.ts:156-159
SaveUserCode(lessonId, c) ==
  LET hp == [heap EXCEPT !.object[state.userCode][lessonId] = c]
  IN  SetState(state, hp, saveState(state, hp), "saveUserCode")

\* state-manager.ts:173-179
ResetState ==
  SetState(DEFAULT_STATE, heap, saveState(DEFAULT_STATE, heap), "resetState")

\* state-manager.ts:194-205
ImportState(json) ==
  IF json.valid
  THEN LET n == Spread(json, heap)
       IN  SetState(n.st, n.hp, saveState(n.st, n.hp), "importState")
  ELSE SetState(state, heap, localStorage, "importState")

StateNext ==
  \/ LoadModule
  \/ InitState
  \/ ToggleTheme
  \/ \E lessonId \in LessonIds : MarkLessonCompleted(lessonId)
  \/ \E lessonId \in LessonIds, c \in Codes : SaveUserCode(lessonId, c)
  \/ ResetState
  \/ \E json \in ImportedJson : ImportState(json)

StateSpec == Init /\ [][StateNext]_vars

\* C30: resetState() restores every key of the application state to its
\* hardcoded default, whatever came before: afterwards the theme is
\* 'light', no lesson is completed, no user code is saved and
\* completedLessons is empty; the hardcoded defaults are never modified.
C30_ResetRestoresState ==
  stateCall = "resetState" =>
    /\ state.theme = "light"
    /\ heap.array[state.completedLessons] = <<>>
    /\ \A id \in LessonIds :
         /\ ~isLessonCompleted(state, heap, id)
         /\ getUserCode(state, heap, id) = ""
    /\ heap.array[1] = <<>>
    /\ heap.object[2] = [id \in LessonIds |-> ""]

====
